---- MODULE Spec2Model ----
(***************************************************************************)
(* Model of the synthetic generation and scheduling engine of              *)
(* solar-dashboard-data-api: DataGenerationScheduler                        *)
(* (src/src/infrastructure/data-generation-scheduler.ts) and the admin      *)
(* routes that trigger it (src/src/api/admin.ts), with the anomaly          *)
(* patterns and the pattern loop of the seed script (src/unnamed/part_002). *)
(*                                                                          *)
(* Time is counted in hours; a calendar day d starts at the instant 24*d.   *)
(* The process's time zone is taken to have a fixed offset (no daylight     *)
(* saving), so that local midnight + h hours is the instant date + h.       *)
(* Every `await` of the source is a point where another invocation may run; *)
(* the code between two awaits is one atomic step.                          *)
(***************************************************************************)
EXTENDS Integers, Sequences, FiniteSets, TLC

VARIABLES
  job,       \* DataGenerationScheduler.job is not null
  now,       \* the current calendar day (what new Date() falls in)
  store,     \* the EnergyGenerationRecord collection: record -> number of copies
  registry,  \* the units the registry lists as ACTIVE
  runs,      \* per invocation slot: the state of one generateDailyData /
             \* generateHistoricalData call and of its caller
  faults,    \* number of registry / store failures so far
  invoked,   \* number of invocations so far
  calc,      \* one evaluation of a pure function: its inputs and its result
  tasks      \* number of cron tasks that are scheduled and running

vars == <<job, now, store, registry, runs, faults, invoked, calc,
         tasks>>

----------------------------------------------------------------------------
(* Bounds of the model *)

MaxRuns == 2      \* invocations that may be in flight together
MaxInvocations == 2   \* invocations in all
MaxDays == 2      \* largest explicit `days` of a backfill request
MaxTicks == 1     \* midnights that pass
MaxFaults == 1    \* registry / store calls that fail
MaxPartial == 1   \* documents a failed insertMany may have written

(* Program constants *)

HoursPerDay == 24   \* 24 * 60 * 60 * 1000 ms
HourStep == 2       \* hour += 2
RecordsPerDay == 12 \* "Generate 12 records (every 2 hours ...)"
DefaultDays == 7    \* req.body?.days || 7
StatusOk == 200
StatusError == 500

RunIds == 1..MaxRuns

\* The units the registry knows; both ACTIVE.
Unit1 == [_id |-> "id1", serialNumber |-> "SU-1", name |-> "one", status |-> "ACTIVE"]
Unit2 == [_id |-> "id2", serialNumber |-> "SU-2", name |-> "two", status |-> "ACTIVE"]

\* What GET /api/solar-units/test?status=ACTIVE may answer (response.data).
RegistryResponses == { <<>>, <<Unit1>>, <<Unit1, Unit2>> }

----------------------------------------------------------------------------
(* The record store *)

\* countDocuments({serialNumber, timestamp: {$gte, $lt}})
\* the number of documents among `keys`, every copy counted
SumCopies(st, keys) ==
  Cardinality(UNION { { <<k, c>> : c \in 1..st[k] } : k \in keys })

CountDocuments(st, serialNumber, gte, lt) ==
  SumCopies(st, { k \in DOMAIN st : /\ k.serialNumber = serialNumber
                                    /\ k.timestamp >= gte
                                    /\ k.timestamp < lt })

\* one document written
InsertOne(st, rec) ==
  IF rec \in DOMAIN st THEN [st EXCEPT ![rec] = @ + 1]
  ELSE st @@ (rec :> 1)

\* insertMany(records): the documents are written in order; n of them here
RECURSIVE InsertPrefix(_, _, _)
InsertPrefix(st, records, n) ==
  IF n = 0 THEN st
  ELSE InsertOne(InsertPrefix(st, records, n - 1), records[n])

\* (mutant) the last document of the batch is not written
InsertManyDropsLast(st, records) == InsertPrefix(st, records, Len(records) - 1)

InsertMany(st, records) == InsertPrefix(st, records, Len(records))

----------------------------------------------------------------------------
(* generateRecordsForUnit: the synthesized batch *)

\* today.setHours(0, 0, 0, 0) / date.setHours(0, 0, 0, 0)
StartOfDay(day) == day * HoursPerDay

\* (mutant) the loop steps by one hour: hour++
RECURSIVE HourLoopHourly(_)
HourLoopHourly(hour) ==
  IF hour < HoursPerDay THEN <<hour>> \o HourLoopHourly(hour + 1) ELSE <<>>

\* for (let hour = 0; hour < 24; hour += 2)
RECURSIVE HourLoop(_)
HourLoop(hour) ==
  IF hour < HoursPerDay THEN <<hour>> \o HourLoop(hour + HourStep) ELSE <<>>

\* records.push({serialNumber, solarUnitId, timestamp, ...}) for every hour
BuildRecords(unit, date) ==
  LET hours == HourLoop(0)
  IN [k \in 1..Len(hours) |->
        [serialNumber |-> unit.serialNumber, timestamp |-> date + hours[k]]]

\* (mutant) the guard compares with the batch size: if (existingCount > 12)
AlreadyExistsOverBatch(existingCount) == existingCount > RecordsPerDay

\* (mutant) only a complete day is skipped: if (existingCount >= 12)
AlreadyExistsFullDay(existingCount) == existingCount >= RecordsPerDay

\* if (existingCount > 0) return;
AlreadyExists(existingCount) == existingCount > 0

----------------------------------------------------------------------------
(* One invocation *)

NoResponse == [status |-> 0, success |-> FALSE, error |-> "none"]

Idle ==
  [pc |-> "idle", kind |-> "none", days |-> 0, solarUnits |-> <<>>,
   i |-> 0, idx |-> 0, date |-> 0, records |-> <<>>, log |-> <<>>,
   error |-> "none", fetch |-> "none", response |-> NoResponse]

Active(run) == run.pc \in {"fetch", "count", "insert"}

\* the lowest idle slot takes the next invocation
Free(r) ==
  /\ invoked < MaxInvocations
  /\ runs[r].pc = "idle"
  /\ \A q \in RunIds : q < r => runs[q].pc # "idle"

\* the call this.generateRecordsForUnit(unit, date) up to its first await
CallGenerate(run) ==
  [run EXCEPT !.records = BuildRecords(run.solarUnits[run.idx], run.date),
              !.pc = "count"]

\* the log line (and outcome) of one generateRecordsForUnit call
Logged(run, outcome) ==
  [run EXCEPT !.log = Append(@, [serialNumber |-> run.solarUnits[run.idx].serialNumber,
                                 date |-> run.date,
                                 outcome |-> outcome]),
              !.records = <<>>]

\* (mutant) the loop over the days stops one day early: i < days - 1
NextUnitStopsEarly(run, today) ==
  IF run.idx < Len(run.solarUnits)
  THEN CallGenerate([run EXCEPT !.idx = @ + 1])
  ELSE IF run.kind = "historical" /\ run.i + 1 < run.days - 1
       THEN CallGenerate([run EXCEPT !.i = @ + 1, !.idx = 1,
                                     !.date = StartOfDay(today - (run.i + 1))])
       ELSE [run EXCEPT !.pc = "returned"]

\* the loops over the units (and, for a backfill, the days) move on
NextUnit(run, today) ==
  IF run.idx < Len(run.solarUnits)
  THEN CallGenerate([run EXCEPT !.idx = @ + 1])
  ELSE IF run.kind = "historical" /\ run.i + 1 < run.days
       THEN CallGenerate([run EXCEPT !.i = @ + 1, !.idx = 1,
                                     !.date = StartOfDay(today - (run.i + 1))])
       ELSE [run EXCEPT !.pc = "returned"]

\* (mutant) the outer catch logs the error and does not throw it again
SwallowRunError(run, error) == [run EXCEPT !.pc = "returned"]

\* catch (error) { console.error(...); throw error; }
CatchRunError(run, error) == [run EXCEPT !.pc = "threw", !.error = error]

\* (mutant) no try/catch around the call: the unit's error ends the run
RethrowUnitError(run, today) ==
  [Logged(run, "error") EXCEPT !.pc = "threw", !.error = "store unavailable"]

\* catch (error) { console.error(`Error generating data for unit ...`) }
CatchUnitError(run, today) == NextUnit(Logged(run, "error"), today)

\* (mutant) an empty list is thrown as an error
DailyThrowsOnEmpty(run, data, today) ==
  LET got == [run EXCEPT !.solarUnits = data]
  IN IF Len(data) = 0
     THEN [got EXCEPT !.pc = "threw", !.error = "no active units"]
     ELSE CallGenerate([got EXCEPT !.date = StartOfDay(today), !.idx = 1])

\* generateDailyData after the registry answered
DailyAfterFetch(run, data, today) ==
  LET got == [run EXCEPT !.solarUnits = data]
  IN IF Len(data) = 0
     THEN [got EXCEPT !.pc = "returned"]
     ELSE CallGenerate([got EXCEPT !.date = StartOfDay(today), !.idx = 1])

\* generateHistoricalData after the registry answered
HistoricalAfterFetch(run, data, today) ==
  LET got == [run EXCEPT !.solarUnits = data]
  IN IF run.days < 1 \/ Len(data) = 0
     THEN [got EXCEPT !.pc = "returned"]
     ELSE CallGenerate([got EXCEPT !.date = StartOfDay(today), !.idx = 1])

----------------------------------------------------------------------------
(* Numbers. The source computes with IEEE doubles; the model computes with   *)
(* exact fractions n/d (d > 0, lowest terms). A draw of Math.random() is one *)
(* of the fractions rnd / RandDen, 0 <= rnd < RandDen.                       *)

RandDen == 4

RandomDraws == 0..(RandDen - 1)

RECURSIVE Gcd(_, _)
Gcd(a, b) == IF b = 0 THEN a ELSE Gcd(b, a % b)

Rat(n, d) ==
  LET g == Gcd(IF n < 0 THEN -n ELSE n, d)
  IN [n |-> n \div g, d |-> d \div g]

Whole(k) == [n |-> k, d |-> 1]

Plus(x, y) == Rat(x.n * y.d + y.n * x.d, x.d * y.d)

Minus(x, y) == Rat(x.n * y.d - y.n * x.d, x.d * y.d)

Times(x, y) == Rat(x.n * y.n, x.d * y.d)

Leq(x, y) == x.n * y.d <= y.n * x.d

Positive(x) == x.n > 0

\* Math.max(x, y)
MathMax(x, y) == IF Leq(x, y) THEN y ELSE x

\* Math.round(x): the nearest integer, a half rounds towards +Infinity
MathRound(x) == Whole((2 * x.n + x.d) \div (2 * x.d))

\* Math.random()
MathRandom(rnd) == Rat(rnd, RandDen)

----------------------------------------------------------------------------
(* calculateEnergyGeneration and the payload of one record *)

\* (mutant) the evening decline runs until 23:00 and the night starts there
CalculateEveningUntil23(hour, capacity, rnd) ==
  IF hour >= 23 \/ hour < 6 THEN Whole(0)
  ELSE IF hour >= 20 /\ hour < 23
       THEN MathMax(Whole(0), Times(Times(Whole(capacity), Rat(1, 10)), MathRandom(rnd)))
       ELSE Whole(0)

\* (mutant) the peak hours vary by +/-15%: Math.random() * 0.3 - 0.15
CalculateWidePeak(hour, capacity, rnd) ==
  IF hour >= 12 /\ hour < 14
  THEN LET baseGeneration == Times(Whole(capacity), Rat(75, 100))
           variation == Minus(Times(MathRandom(rnd), Rat(3, 10)), Rat(15, 100))
       IN Times(baseGeneration, Plus(Whole(1), variation))
  ELSE Whole(0)

\* calculateEnergyGeneration(hour, capacity); rnd is the draw of the one
\* Math.random() call of the branch taken
CalculateEnergyGeneration(hour, capacity, rnd) ==
  IF hour >= 22 \/ hour < 6 THEN Whole(0)
  ELSE IF hour >= 6 /\ hour < 12
  THEN LET factor == Rat(hour - 6, 6)
           baseGeneration == Times(Times(Whole(capacity), Rat(7, 10)), factor)
           variation == Minus(Times(MathRandom(rnd), Rat(2, 10)), Rat(1, 10))
       IN MathMax(Whole(0), Times(baseGeneration, Plus(Whole(1), variation)))
  ELSE IF hour >= 12 /\ hour < 14
  THEN LET baseGeneration == Times(Whole(capacity), Rat(75, 100))
           variation == Minus(Times(MathRandom(rnd), Rat(15, 100)), Rat(75, 1000))
       IN Times(baseGeneration, Plus(Whole(1), variation))
  ELSE IF hour >= 14 /\ hour < 20
  THEN LET factor == Minus(Whole(1), Rat(hour - 14, 6))
           baseGeneration == Times(Times(Whole(capacity), Rat(7, 10)), factor)
           variation == Minus(Times(MathRandom(rnd), Rat(2, 10)), Rat(1, 10))
       IN MathMax(Whole(0), Times(baseGeneration, Plus(Whole(1), variation)))
  ELSE IF hour >= 20 /\ hour < 22
  THEN LET baseGeneration == Times(Times(Whole(capacity), Rat(1, 10)), MathRandom(rnd))
       IN MathMax(Whole(0), baseGeneration)
  ELSE Whole(0)

\* const capacity = unit.capacity || 5000
CapacityOf(unit) ==
  IF "capacity" \in DOMAIN unit /\ unit.capacity # 0 THEN unit.capacity ELSE 5000

\* the record generateRecordsForUnit pushes for one hour of the loop; the
\* three draws are those of its three Math.random() calls, in order
SynthesizeRecord(unit, date, hour, rnd, rndEfficiency, rndTemperature) ==
  LET energyGenerated == CalculateEnergyGeneration(hour, CapacityOf(unit), rnd)
  IN [serialNumber |-> unit.serialNumber,
      solarUnitId |-> unit._id,
      timestamp |-> [date |-> date, hour |-> hour],
      energyGenerated |-> energyGenerated,
      peakPower |-> IF Positive(energyGenerated)
                    THEN Times(energyGenerated, Rat(12, 10)) ELSE Whole(0),
      efficiency |-> IF Positive(energyGenerated)
                     THEN Plus(Whole(85), Times(MathRandom(rndEfficiency), Whole(10)))
                     ELSE Whole(0),
      temperature |-> Plus(Whole(25), Times(MathRandom(rndTemperature), Whole(15)))]

----------------------------------------------------------------------------
(* ANOMALY_PATTERNS and the pattern loop of seedWithAnomalies. A date string *)
(* "YYYY-MM-DD" is the number YYYYMMDD: equal strings are equal numbers and  *)
(* the order of the strings is the order of the numbers. A pattern has the   *)
(* fields the source gives it; its `apply` is ApplyPattern on its type.      *)

ZERO_GENERATION ==
  [type |-> "ZERO_GENERATION", date |-> 20251201, startHour |-> 10, endHour |-> 14]

SUDDEN_DROP ==
  [type |-> "SUDDEN_DROP", date |-> 20251205, startHour |-> 9, endHour |-> 15]

\* (mutant) the low-output week starts on 2025-12-08, the day of the spikes
CapacityFactorFromSpikeDay ==
  [type |-> "CAPACITY_FACTOR", dateRange |-> [start |-> 20251208, end |-> 20251216]]

CAPACITY_FACTOR ==
  [type |-> "CAPACITY_FACTOR", dateRange |-> [start |-> 20251210, end |-> 20251216]]

IRREGULAR_PATTERN ==
  [type |-> "IRREGULAR_PATTERN", date |-> 20251208]

IRREGULAR_PATTERN_NIGHT ==
  [type |-> "IRREGULAR_PATTERN_NIGHT", date |-> 20251203, nightOnly |-> TRUE]

ANOMALY_PATTERNS ==
  << ZERO_GENERATION, SUDDEN_DROP, CAPACITY_FACTOR, IRREGULAR_PATTERN,
     IRREGULAR_PATTERN_NIGHT >>

\* (mutant) the hour window includes its end: hour <= pattern.endHour
ShouldApplyInclusiveEnd(pattern, dateString, hour) ==
  LET byDate ==
        IF "date" \in DOMAIN pattern /\ dateString = pattern.date
        THEN IF "startHour" \in DOMAIN pattern /\ "endHour" \in DOMAIN pattern
             THEN hour >= pattern.startHour /\ hour <= pattern.endHour
             ELSE IF "nightOnly" \in DOMAIN pattern /\ pattern.nightOnly
                  THEN hour < 6 \/ hour > 20
                  ELSE TRUE
        ELSE FALSE
  IN IF "dateRange" \in DOMAIN pattern
        /\ dateString >= pattern.dateRange.start
        /\ dateString <= pattern.dateRange.end
     THEN TRUE
     ELSE byDate

\* (mutant) the date range excludes its end: dateString < pattern.dateRange.end
ShouldApplyExclusiveRangeEnd(pattern, dateString, hour) ==
  LET byDate ==
        IF "date" \in DOMAIN pattern /\ dateString = pattern.date
        THEN IF "startHour" \in DOMAIN pattern /\ "endHour" \in DOMAIN pattern
             THEN hour >= pattern.startHour /\ hour < pattern.endHour
             ELSE IF "nightOnly" \in DOMAIN pattern /\ pattern.nightOnly
                  THEN hour < 6 \/ hour > 20
                  ELSE TRUE
        ELSE FALSE
  IN IF "dateRange" \in DOMAIN pattern
        /\ dateString >= pattern.dateRange.start
        /\ dateString < pattern.dateRange.end
     THEN TRUE
     ELSE byDate

\* shouldApplyPattern after the two checks of one loop iteration
ShouldApplyPattern(pattern, dateString, hour) ==
  LET byDate ==
        IF "date" \in DOMAIN pattern /\ dateString = pattern.date
        THEN IF "startHour" \in DOMAIN pattern /\ "endHour" \in DOMAIN pattern
             THEN hour >= pattern.startHour /\ hour < pattern.endHour
             ELSE IF "nightOnly" \in DOMAIN pattern /\ pattern.nightOnly
                  THEN hour < 6 \/ hour > 20
                  ELSE TRUE
        ELSE FALSE
  IN IF "dateRange" \in DOMAIN pattern
        /\ dateString >= pattern.dateRange.start
        /\ dateString <= pattern.dateRange.end
     THEN TRUE
     ELSE byDate

\* Math.round(record.energyGenerated * multiplier)
Scaled(record, multiplier) ==
  [record EXCEPT !.energyGenerated = MathRound(Times(@, multiplier))]

\* (mutant) SUDDEN_DROP keeps 70% of the energy
ApplyDropKeeps70(pattern, record, rnd) ==
  IF pattern.type = "ZERO_GENERATION"
  THEN [record EXCEPT !.energyGenerated = Whole(0)]
  ELSE IF pattern.type = "SUDDEN_DROP" THEN Scaled(record, Rat(7, 10))
  ELSE IF pattern.type = "CAPACITY_FACTOR" THEN Scaled(record, Rat(4, 10))
  ELSE IF pattern.type = "IRREGULAR_PATTERN_NIGHT"
  THEN [record EXCEPT !.energyGenerated =
          Plus(Whole(50), Times(MathRandom(rnd), Whole(100)))]
  ELSE Scaled(record, IF 2 * rnd > RandDen THEN Rat(25, 10) ELSE Rat(4, 10))

\* (mutant) the night spike is centred on zero: -50 + Math.random() * 100
ApplyNightAroundZero(pattern, record, rnd) ==
  IF pattern.type = "ZERO_GENERATION"
  THEN [record EXCEPT !.energyGenerated = Whole(0)]
  ELSE IF pattern.type = "SUDDEN_DROP" THEN Scaled(record, Rat(3, 10))
  ELSE IF pattern.type = "CAPACITY_FACTOR" THEN Scaled(record, Rat(4, 10))
  ELSE IF pattern.type = "IRREGULAR_PATTERN_NIGHT"
  THEN [record EXCEPT !.energyGenerated =
          Plus(Whole(-50), Times(MathRandom(rnd), Whole(100)))]
  ELSE Scaled(record, IF 2 * rnd > RandDen THEN Rat(25, 10) ELSE Rat(4, 10))

\* pattern.apply(record); rnd is the draw of its Math.random() call, if any
ApplyPattern(pattern, record, rnd) ==
  IF pattern.type = "ZERO_GENERATION"
  THEN [record EXCEPT !.energyGenerated = Whole(0)]
  ELSE IF pattern.type = "SUDDEN_DROP" THEN Scaled(record, Rat(3, 10))
  ELSE IF pattern.type = "CAPACITY_FACTOR" THEN Scaled(record, Rat(4, 10))
  ELSE IF pattern.type = "IRREGULAR_PATTERN_NIGHT"
  THEN [record EXCEPT !.energyGenerated =
          Plus(Whole(50), Times(MathRandom(rnd), Whole(100)))]
  ELSE Scaled(record, IF 2 * rnd > RandDen THEN Rat(25, 10) ELSE Rat(4, 10))

\* for (const pattern of patterns) { ... if (shouldApplyPattern) { record =
\* pattern.apply(record); isAnomaly = true; break; } } from the i-th pattern
\* on; `applied` lists the patterns whose apply was called
RECURSIVE ScanFrom(_, _, _, _, _, _)
ScanFrom(patterns, i, record, dateString, hour, rnd) ==
  IF i > Len(patterns)
  THEN [record |-> record, isAnomaly |-> FALSE, applied |-> <<>>]
  ELSE IF ShouldApplyPattern(patterns[i], dateString, hour)
       THEN [record |-> ApplyPattern(patterns[i], record, rnd),
             isAnomaly |-> TRUE, applied |-> <<i>>]
       ELSE ScanFrom(patterns, i + 1, record, dateString, hour, rnd)

\* the same loop without its break
RECURSIVE ScanAllFrom(_, _, _, _, _, _)
ScanAllFrom(patterns, i, record, dateString, hour, rnd) ==
  IF i > Len(patterns)
  THEN [record |-> record, isAnomaly |-> FALSE, applied |-> <<>>]
  ELSE IF ShouldApplyPattern(patterns[i], dateString, hour)
       THEN LET rest == ScanAllFrom(patterns, i + 1,
                                    ApplyPattern(patterns[i], record, rnd),
                                    dateString, hour, rnd)
            IN [record |-> rest.record, isAnomaly |-> TRUE,
                applied |-> <<i>> \o rest.applied]
       ELSE ScanAllFrom(patterns, i + 1, record, dateString, hour, rnd)

\* (mutant) the loop has no break: every matching pattern is applied in turn
ApplyEveryMatch(patterns, record, dateString, hour, rnd) ==
  ScanAllFrom(patterns, 1, record, dateString, hour, rnd)

\* the pattern loop over one base record
ApplyAnomalies(patterns, record, dateString, hour, rnd) ==
  ScanFrom(patterns, 1, record, dateString, hour, rnd)

\* no evaluation is under way
NoCalc == [op |-> "none", done |-> FALSE]

----------------------------------------------------------------------------
(* Actions *)

Init ==
  /\ job = FALSE
  /\ now = 0
  /\ store = <<>>
  /\ registry \in RegistryResponses
  /\ runs = [r \in RunIds |-> Idle]
  /\ faults = 0
  /\ invoked = 0
  /\ calc = NoCalc
  /\ tasks = 0

\* (mutant) no check of this.job: every call schedules another task
StartUnguarded ==
  /\ job' = TRUE
  /\ tasks' = tasks + 1
  /\ UNCHANGED <<now, store, registry, runs, faults, invoked, calc>>

\* DataGenerationScheduler.start()
Start ==
  /\ ~job
  /\ job' = TRUE
  /\ tasks' = tasks + 1
  /\ UNCHANGED <<now, store, registry, runs, faults, invoked, calc>>

\* DataGenerationScheduler.stop()
Stop ==
  /\ job
  /\ tasks' = tasks - 1
  /\ job' = FALSE
  /\ UNCHANGED <<now, store, registry, runs, faults, invoked, calc>>

\* the entry point is called and runs up to its await of axios.get
Invoke(kind, days) == [Idle EXCEPT !.pc = "fetch", !.kind = kind, !.days = days]

\* midnight passes while no job is scheduled
Midnight ==
  /\ ~job
  /\ now < MaxTicks
  /\ now' = now + 1
  /\ UNCHANGED <<job, store, registry, runs, faults, invoked, calc, tasks>>

\* midnight passes and the cron job '0 0 * * *' calls generateDailyData
TimerFire(r) ==
  /\ job
  /\ now < MaxTicks
  /\ Free(r)
  /\ now' = now + 1
  /\ runs' = [runs EXCEPT ![r] = Invoke("timer", 0)]
  /\ invoked' = invoked + 1
  /\ UNCHANGED <<job, store, registry, faults, calc, tasks>>

\* POST /api/admin/generate-today-data
PostGenerateToday(r) ==
  /\ Free(r)
  /\ runs' = [runs EXCEPT ![r] = Invoke("today", 0)]
  /\ invoked' = invoked + 1
  /\ UNCHANGED <<job, now, store, registry, faults, calc, tasks>>

\* const days = req.body?.days || 7
DaysOf(body) == IF body = 0 THEN DefaultDays ELSE body

\* POST /api/admin/generate-historical-data with body { days }
PostGenerateHistorical(r, body) ==
  /\ Free(r)
  /\ runs' = [runs EXCEPT ![r] = Invoke("historical", DaysOf(body))]
  /\ invoked' = invoked + 1
  /\ UNCHANGED <<job, now, store, registry, faults, calc, tasks>>

\* the caller's continuation once the run settles: the admin route answers,
\* the cron callback only logs
Answer(run) ==
  IF run.kind = "timer" THEN NoResponse
  ELSE IF run.pc = "returned"
       THEN [status |-> StatusOk, success |-> TRUE, error |-> "none"]
       ELSE [status |-> StatusError, success |-> FALSE, error |-> run.error]

Settled(run) == run.pc \in {"returned", "threw"}

Caller(run) ==
  IF Settled(run) THEN [run EXCEPT !.response = Answer(run)] ELSE run

\* axios.get resolves
FetchOk(r) ==
  /\ runs[r].pc = "fetch"
  /\ runs' = [runs EXCEPT ![r] =
                LET run == [runs[r] EXCEPT !.fetch = "resolved"]
                IN Caller(IF run.kind = "historical"
                          THEN HistoricalAfterFetch(run, registry, now)
                          ELSE DailyAfterFetch(run, registry, now))]
  /\ UNCHANGED <<job, now, store, registry, faults, invoked, calc, tasks>>

\* (mutant) the timer callback has no catch of its own and the failure of its
\* run takes the job down
FetchFailStopsJob(r) ==
  /\ runs[r].pc = "fetch"
  /\ faults < MaxFaults
  /\ faults' = faults + 1
  /\ runs' = [runs EXCEPT ![r] =
                Caller(CatchRunError([runs[r] EXCEPT !.fetch = "rejected"],
                                     "registry unavailable"))]
  /\ job' = IF runs[r].kind = "timer" THEN FALSE ELSE job
  /\ tasks' = IF runs[r].kind = "timer" /\ job THEN tasks - 1 ELSE tasks
  /\ UNCHANGED <<now, store, registry, invoked, calc>>

\* axios.get rejects
FetchFail(r) ==
  /\ runs[r].pc = "fetch"
  /\ faults < MaxFaults
  /\ faults' = faults + 1
  /\ runs' = [runs EXCEPT ![r] =
                Caller(CatchRunError([runs[r] EXCEPT !.fetch = "rejected"],
                                     "registry unavailable"))]
  /\ UNCHANGED <<job, now, store, registry, invoked, calc, tasks>>

\* the existence check of the call in flight
ExistingCount(run) ==
  CountDocuments(store, run.solarUnits[run.idx].serialNumber,
                 run.date, run.date + HoursPerDay)

\* countDocuments resolves
CountOk(r) ==
  /\ runs[r].pc = "count"
  /\ runs' = [runs EXCEPT ![r] =
                IF AlreadyExists(ExistingCount(runs[r]))
                THEN Caller(NextUnit(Logged(runs[r], "skipped"), now))
                ELSE [runs[r] EXCEPT !.pc = "insert"]]
  /\ UNCHANGED <<job, now, store, registry, faults, invoked, calc, tasks>>

\* countDocuments rejects
CountFail(r) ==
  /\ runs[r].pc = "count"
  /\ faults < MaxFaults
  /\ faults' = faults + 1
  /\ runs' = [runs EXCEPT ![r] = Caller(CatchUnitError(runs[r], now))]
  /\ UNCHANGED <<job, now, store, registry, invoked, calc, tasks>>

\* insertMany resolves
InsertOk(r) ==
  /\ runs[r].pc = "insert"
  /\ store' = InsertMany(store, runs[r].records)
  /\ runs' = [runs EXCEPT ![r] = Caller(NextUnit(Logged(runs[r], "generated"), now))]
  /\ UNCHANGED <<job, now, registry, faults, invoked, calc, tasks>>

\* insertMany rejects, n documents having been written before the failure
InsertFail(r, n) ==
  /\ runs[r].pc = "insert"
  /\ faults < MaxFaults
  /\ faults' = faults + 1
  /\ store' = InsertPrefix(store, runs[r].records, n)
  /\ runs' = [runs EXCEPT ![r] = Caller(CatchUnitError(runs[r], now))]
  /\ UNCHANGED <<job, now, registry, invoked, calc, tasks>>

\* the settled invocation is over; its slot can take another one
Release(r) ==
  /\ Settled(runs[r])
  /\ runs' = [runs EXCEPT ![r] = Idle]
  /\ UNCHANGED <<job, now, store, registry, faults, invoked, calc, tasks>>

Next ==
  \/ Start
  \/ Stop
  \/ Midnight
  \/ \E r \in RunIds : TimerFire(r)
  \/ \E r \in RunIds : PostGenerateToday(r)
  \/ \E r \in RunIds, body \in 1..MaxDays : PostGenerateHistorical(r, body)
  \/ \E r \in RunIds : FetchOk(r)
  \/ \E r \in RunIds : FetchFail(r)
  \/ \E r \in RunIds : CountOk(r)
  \/ \E r \in RunIds : CountFail(r)
  \/ \E r \in RunIds : InsertOk(r)
  \/ \E r \in RunIds, n \in 0..MaxPartial : InsertFail(r, n)
  \/ \E r \in RunIds : Release(r)

Spec == Init /\ [][Next]_vars

----------------------------------------------------------------------------
(* A single backfill request without a body (days defaults to 7), from the   *)
(* empty store.                                                              *)

BackfillDefault(r) ==
  /\ invoked = 0
  /\ PostGenerateHistorical(r, 0)

NextBackfill ==
  \/ Midnight
  \/ \E r \in RunIds : BackfillDefault(r)
  \/ \E r \in RunIds : FetchOk(r)
  \/ \E r \in RunIds : FetchFail(r)
  \/ \E r \in RunIds : CountOk(r)
  \/ \E r \in RunIds : CountFail(r)
  \/ \E r \in RunIds : InsertOk(r)
  \/ \E r \in RunIds, n \in 0..MaxPartial : InsertFail(r, n)
  \/ \E r \in RunIds : Release(r)

SpecBackfill == Init /\ [][NextBackfill]_vars

----------------------------------------------------------------------------
(* Properties *)

\* the records of one unit on the calendar day that starts at `date`
DayCount(serialNumber, date) ==
  CountDocuments(store, serialNumber, date, date + HoursPerDay)

\* the start of the calendar day a stored record falls in
DayOf(rec) == (rec.timestamp \div HoursPerDay) * HoursPerDay

\* all records with a timestamp in [gte, lt), whatever the unit
WindowCount(gte, lt) ==
  SumCopies(store, { k \in DOMAIN store : k.timestamp >= gte /\ k.timestamp < lt })

LogOf(r) == runs[r].log

SerialAt(run, k) == run.solarUnits[k].serialNumber

\* C1: idempotence of generateRecordsForUnit. When the existence check of a
\* call for (unit, day) answers while the store holds the 12 records a first
\* call for that (unit, day) inserted, the call takes the skip branch and the
\* store is left as it is: 12 records for (unit, day), not 24.
C1_SecondCallSkips ==
  [][\A r \in RunIds :
       ( /\ runs[r].pc = "count"
         /\ runs'[r] # runs[r]
         /\ faults' = faults
         /\ ExistingCount(runs[r]) = RecordsPerDay )
       => /\ store' = store
          /\ runs'[r].log =
               Append(runs[r].log,
                      [serialNumber |-> SerialAt(runs[r], runs[r].idx),
                       date |-> runs[r].date,
                       outcome |-> "skipped"])]_vars

\* C1 witness: a pair was generated by one call and skipped by a later one, and
\* holds 12 records.
C1_Witness ==
  \E q \in RunIds, r \in RunIds :
    \E j \in DOMAIN LogOf(q), k \in DOMAIN LogOf(r) :
      /\ q # r \/ j < k
      /\ Settled(runs[q]) \/ q = r
      /\ LogOf(q)[j].outcome = "generated"
      /\ LogOf(r)[k] = [LogOf(q)[j] EXCEPT !.outcome = "skipped"]
      /\ DayCount(LogOf(q)[j].serialNumber, LogOf(q)[j].date) = RecordsPerDay

\* C2: for every (unit, calendar day) the store holds 0 or exactly 12 records.
C2_NoPartialDay ==
  \A rec \in DOMAIN store : DayCount(rec.serialNumber, DayOf(rec)) = RecordsPerDay

\* C3: at most one run (timer, manual or admin triggered) is in flight.
C3_MutualExclusion ==
  Cardinality({ r \in RunIds : Active(runs[r]) }) <= 1

\* C4: check-then-insert race. Whenever two invocations have both found no
\* record for the same (unit, day) and both inserted their batch, the store
\* holds both batches: at least 24 records for that (unit, day).
C4_RaceDuplicates ==
  \A q \in RunIds, r \in RunIds :
    \A j \in DOMAIN LogOf(q), k \in DOMAIN LogOf(r) :
      ( /\ q # r
        /\ LogOf(q)[j].outcome = "generated"
        /\ LogOf(r)[k] = LogOf(q)[j] )
      => DayCount(LogOf(q)[j].serialNumber, LogOf(q)[j].date) >= 2 * RecordsPerDay

\* C4 witness: two invocations inserted for the same (unit, day), which now
\* holds 24 records.
C4_Witness ==
  \E q \in RunIds, r \in RunIds :
    \E j \in DOMAIN LogOf(q), k \in DOMAIN LogOf(r) :
      /\ q # r
      /\ LogOf(q)[j].outcome = "generated"
      /\ LogOf(r)[k] = LogOf(q)[j]
      /\ DayCount(LogOf(q)[j].serialNumber, LogOf(q)[j].date) = 2 * RecordsPerDay

\* the days a run goes through
DaysOfRun(run) == IF run.kind = "historical" THEN run.days ELSE 1

\* C5: partial-failure isolation. A run never throws once a unit has been
\* started (a failed existence check or insert is caught per unit), and a run
\* that returned has processed every unit of the fetched list, on every day it
\* goes through, whatever failed in between.
C5_FailureIsolated ==
  \A r \in RunIds :
    LET run == runs[r]
        n == Len(run.solarUnits)
    IN /\ run.pc = "threw" => run.log = <<>>
       /\ (run.pc = "returned" /\ n > 0) =>
            /\ Len(run.log) = n * DaysOfRun(run)
            /\ \A k \in DOMAIN run.log :
                 run.log[k].serialNumber = SerialAt(run, ((k - 1) % n) + 1)

\* C5 witness: a run returned although one of its units failed, and the unit
\* after the failed one was generated or skipped.
C5_Witness ==
  \E r \in RunIds :
    /\ runs[r].pc = "returned"
    /\ \E k \in DOMAIN LogOf(r) :
         /\ k < Len(LogOf(r))
         /\ LogOf(r)[k].outcome = "error"
         /\ LogOf(r)[k + 1].outcome \in {"generated", "skipped"}

\* C6: a failed registry fetch is fatal to the run. The run throws the error to
\* its caller without having started any generateRecordsForUnit call (nothing
\* checked, nothing inserted), and the admin routes answer with the non-2xx
\* status 500 and the error's message.
C6_RegistryFailureFatal ==
  \A r \in RunIds :
    LET run == runs[r]
    IN run.fetch = "rejected"
       => /\ run.pc = "threw"
          /\ run.error = "registry unavailable"
          /\ run.log = <<>> /\ run.records = <<>>
          /\ run.kind \in {"today", "historical"} =>
               /\ run.response.status = StatusError
               /\ ~run.response.success
               /\ run.response.error = run.error

\* C6 witness: an admin-triggered run threw on the registry and was answered 500.
C6_Witness ==
  \E r \in RunIds :
    /\ runs[r].kind \in {"today", "historical"}
    /\ runs[r].pc = "threw"
    /\ runs[r].response.status = StatusError
    /\ runs[r].response.error = "registry unavailable"
    /\ store = <<>>

\* C7: generateDailyData with a registry that answers with no active unit
\* returns without an error, without an existence check or insert.
C7_NoUnitsNoOp ==
  \A r \in RunIds :
    LET run == runs[r]
    IN (run.fetch = "resolved" /\ run.solarUnits = <<>>
          /\ run.kind \in {"timer", "today"})
       => /\ run.pc = "returned"
          /\ run.error = "none"
          /\ run.log = <<>> /\ run.records = <<>>
          /\ store = <<>>
          /\ run.kind = "today" =>
               run.response.status = StatusOk /\ run.response.success

\* C7 witness: a manual run found no active unit and returned.
C7_Witness ==
  \E r \in RunIds :
    /\ registry = <<>>
    /\ runs[r].kind = "today"
    /\ runs[r].pc = "returned"
    /\ runs[r].solarUnits = <<>>
    /\ runs[r].response.status = StatusOk

\* C8: backfill completeness. When generateHistoricalData(days) has returned,
\* every pair (unit, today - i days), unit in the fetched list and i in
\* 0..days-1, has been processed exactly once, today being the day of the
\* first pair.
C8_BackfillCompleteness ==
  \A r \in RunIds :
    LET run == runs[r]
        n == Len(run.solarUnits)
    IN (run.kind = "historical" /\ run.pc = "returned" /\ n > 0) =>
         \A i \in 0..(run.days - 1), u \in 1..n :
           Cardinality({ k \in DOMAIN run.log :
                           /\ run.log[k].serialNumber = SerialAt(run, u)
                           /\ run.log[k].date = run.log[1].date - i * HoursPerDay }) = 1

\* the 7-day window of a backfill that ends on day `today`
WindowOf(today) ==
  WindowCount(StartOfDay(today - (DefaultDays - 1)), StartOfDay(today) + HoursPerDay)

\* a backfill of 7 days has returned, nothing has failed and no midnight has
\* passed since the store was empty
BackfillDone(run) ==
  /\ run.kind = "historical" /\ run.days = DefaultDays
  /\ run.pc = "returned"
  /\ faults = 0
  /\ now = 0

\* C9 as stated: the window then holds 7 x |activeUnits| records.
C9_SevenPerUnit ==
  \A r \in RunIds :
    BackfillDone(runs[r]) => WindowOf(now) = DefaultDays * Len(runs[r].solarUnits)

\* C9 amended: the window then holds 7 x 12 x |activeUnits| records.
C9_TwelvePerUnitDay ==
  \A r \in RunIds :
    BackfillDone(runs[r]) =>
      WindowOf(now) = DefaultDays * RecordsPerDay * Len(runs[r].solarUnits)

\* C9 witness: a backfill of 7 days over two units is done; 168 records.
C9_Witness ==
  \E r \in RunIds :
    /\ BackfillDone(runs[r])
    /\ Len(runs[r].solarUnits) = 2
    /\ WindowOf(now) = 168

\* C10: every synthesized batch holds exactly the 12 timestamps date + 00:00,
\* date + 02:00, ..., date + 22:00, one record each, and every record of the
\* store lies on the 2-hour grid.
C10_TwoHourGrid ==
  /\ \A r \in RunIds :
       LET run == runs[r]
       IN run.pc \in {"count", "insert"} =>
            /\ Len(run.records) = RecordsPerDay
            /\ \A k \in 1..Len(run.records) :
                 /\ run.records[k].timestamp = run.date + 2 * (k - 1)
                 /\ run.records[k].timestamp < run.date + HoursPerDay
                 /\ run.records[k].serialNumber = SerialAt(run, run.idx)
  /\ \A rec \in DOMAIN store : rec.timestamp % 2 = 0

\* C10 witness: a full batch has been inserted and another one is pending.
C10_Witness ==
  /\ \E rec \in DOMAIN store :
       rec.timestamp = DayOf(rec) + 22 /\ DayCount(rec.serialNumber, DayOf(rec)) = RecordsPerDay
  /\ \E r \in RunIds : runs[r].pc = "insert"

----------------------------------------------------------------------------
(* What a run hands to its caller *)

\* generateDailyData / generateHistoricalData are Promise<void>: the value a
\* run returns is undefined, whatever happened to its units
ReturnValue(run) == "undefined"

\* the number of (unit, day) pairs of the run that ended with `outcome`
Outcomes(run, outcome) ==
  Cardinality({ k \in 1..Len(run.log) : run.log[k].outcome = outcome })

\* C11: the summary a run gives its caller carries the counts of generated,
\* skipped and errored pairs. Then two returned runs of the same kind (and the
\* same `days`) that hand their callers the same value and the same response
\* have the same three counts: the caller can tell a run with failed units
\* from a fully successful one.
C11_SummaryCounts ==
  \A q, r \in RunIds :
    (/\ runs[q].pc = "returned" /\ runs[r].pc = "returned"
     /\ runs[q].kind = runs[r].kind /\ runs[q].days = runs[r].days
     /\ ReturnValue(runs[q]) = ReturnValue(runs[r])
     /\ runs[q].response = runs[r].response)
    => \A o \in {"generated", "skipped", "error"} :
         Outcomes(runs[q], o) = Outcomes(runs[r], o)

----------------------------------------------------------------------------
(* A registry that does not honour the `status` query parameter. The         *)
(* scheduler sends params: { status: 'ACTIVE' } and takes response.data as   *)
(* it comes.                                                                 *)

Unit3 == [_id |-> "id3", serialNumber |-> "SU-3", name |-> "three", status |-> "INACTIVE"]

UnfilteredResponses == { <<Unit3>>, <<Unit1, Unit3>> }

InitUnfiltered ==
  /\ job = FALSE
  /\ now = 0
  /\ store = <<>>
  /\ registry \in UnfilteredResponses
  /\ runs = [r \in RunIds |-> Idle]
  /\ faults = 0
  /\ invoked = 0
  /\ calc = NoCalc
  /\ tasks = 0

SpecUnfiltered == InitUnfiltered /\ [][Next]_vars

\* the serial numbers of the units the response lists with this status
SerialsWithStatus(units, status) ==
  { units[k].serialNumber : k \in { j \in 1..Len(units) : units[j].status = status } }

\* C13: no record is generated for a unit that is not ACTIVE, whatever the
\* registry response contains: every stored record, every pending batch and
\* every processed pair belongs to an entry of the response with status ACTIVE.
C13_OnlyActiveUnits ==
  LET active == SerialsWithStatus(registry, "ACTIVE")
  IN /\ \A rec \in DOMAIN store : rec.serialNumber \in active
     /\ \A r \in RunIds :
          /\ \A k \in 1..Len(runs[r].records) :
               runs[r].records[k].serialNumber \in active
          /\ \A k \in 1..Len(runs[r].log) :
               runs[r].log[k].serialNumber \in active

----------------------------------------------------------------------------
(* A registry that takes the request and never answers. axios.get is called  *)
(* with { params } only: no `timeout`, no AbortSignal, so the awaited        *)
(* promise never settles and the invocation stays at its await.              *)

RegistrySilent(r) ==
  /\ runs[r].pc = "fetch"
  /\ runs' = [runs EXCEPT ![r].pc = "hung"]
  /\ UNCHANGED <<job, now, store, registry, faults, invoked, calc, tasks>>

NextLive ==
  \/ Next
  \/ \E r \in RunIds : RegistrySilent(r)

\* The event loop runs the continuation of every call that is answered: an
\* invocation whose pending call can be answered does take its next step.
Fairness ==
  \A r \in RunIds :
    /\ WF_vars(FetchOk(r))
    /\ WF_vars(CountOk(r))
    /\ WF_vars(InsertOk(r))

SpecLive == Init /\ [][NextLive]_vars /\ Fairness

\* C14: every invocation eventually completes (returns or throws); a
\* collaborator that never answers cannot block the run forever.
C14_RunsComplete ==
  \A r \in RunIds : (runs[r].pc = "fetch") ~> Settled(runs[r])

----------------------------------------------------------------------------
(* The pure functions, one evaluation at a time: calc holds the inputs, an   *)
(* action applies the function and adds its result as calc.out.              *)

Hours == 0..(HoursPerDay - 1)

Capacities == {-1000, 1, 1000, 5000}

\* units as the registry may list them: without capacity, with one, with 0
SynthUnits ==
  { Unit1, [capacity |-> 1000] @@ Unit2, [capacity |-> 0] @@ Unit2 }

SynthDates == {20251201, 20251202, 20251205}

Dates ==
  {20251130, 20251201, 20251203, 20251205, 20251208, 20251209, 20251210,
   20251213, 20251216, 20251217}

PreEnergies ==
  {Whole(0), Whole(5), Whole(1000), CalculateEnergyGeneration(10, 5000, 1)}

\* rules that overlap ZERO_GENERATION on 2025-12-01, 12:00 - 14:00
DropOnOutageDay ==
  [type |-> "SUDDEN_DROP", date |-> 20251201, startHour |-> 12, endHour |-> 16]

WideCapacityFactor ==
  [type |-> "CAPACITY_FACTOR", dateRange |-> [start |-> 20251201, end |-> 20251216]]

PatternLists ==
  { ANOMALY_PATTERNS,
    <<>>,
    <<ZERO_GENERATION, DropOnOutageDay, WideCapacityFactor>>,
    <<WideCapacityFactor, DropOnOutageDay, ZERO_GENERATION>> }

CurveInputs ==
  [op : {"curve"}, done : {FALSE}, hour : Hours, capacity : Capacities,
   rnd : RandomDraws]

SynthInputs ==
  [op : {"synth"}, done : {FALSE}, unit : SynthUnits, date : SynthDates,
   hour : { h \in Hours : h % HourStep = 0 }, rnd : RandomDraws,
   rndEfficiency : RandomDraws, rndTemperature : RandomDraws]

\* the base record seedWithAnomalies builds before the pattern loop
BaseRecord(date, hour, energyGenerated) ==
  [serialNumber |-> "SU-TEST-2024",
   timestamp |-> [date |-> date, hour |-> hour],
   energyGenerated |-> energyGenerated]

CatalogInputs ==
  { [op |-> "catalog", done |-> FALSE, patterns |-> ps,
     record |-> BaseRecord(d, h, e), rnd |-> r] :
      ps \in PatternLists, d \in Dates, h \in Hours, e \in PreEnergies,
      r \in RandomDraws }

\* currentDate.toISOString().split("T")[0]
DateString(timestamp) == timestamp.date

\* currentDate.getUTCHours()
GetUTCHours(timestamp) == timestamp.hour

InitPure ==
  /\ job = FALSE
  /\ now = 0
  /\ store = <<>>
  /\ registry = <<>>
  /\ runs = [r \in RunIds |-> Idle]
  /\ faults = 0
  /\ invoked = 0
  /\ calc \in CurveInputs \cup SynthInputs \cup CatalogInputs
  /\ tasks = 0

Result(out) == [done |-> TRUE, out |-> out] @@ calc

\* this.calculateEnergyGeneration(hour, capacity)
Calculate ==
  /\ calc.op = "curve" /\ ~calc.done
  /\ calc' = Result(CalculateEnergyGeneration(calc.hour, calc.capacity, calc.rnd))
  /\ UNCHANGED <<job, now, store, registry, runs, faults, invoked, tasks>>

\* one turn of the hour loop of generateRecordsForUnit
Synthesize ==
  /\ calc.op = "synth" /\ ~calc.done
  /\ calc' = Result(SynthesizeRecord(calc.unit, calc.date, calc.hour, calc.rnd,
                                     calc.rndEfficiency, calc.rndTemperature))
  /\ UNCHANGED <<job, now, store, registry, runs, faults, invoked, tasks>>

\* the pattern loop of seedWithAnomalies over one base record
Adjust ==
  /\ calc.op = "catalog" /\ ~calc.done
  /\ calc' = Result(ApplyAnomalies(calc.patterns, calc.record,
                                   DateString(calc.record.timestamp),
                                   GetUTCHours(calc.record.timestamp), calc.rnd))
  /\ UNCHANGED <<job, now, store, registry, runs, faults, invoked, tasks>>

NextPure ==
  \/ Calculate
  \/ Synthesize
  \/ Adjust

SpecPure == InitPure /\ [][NextPure]_vars

Calculated == calc.op = "curve" /\ calc.done

Synthesized == calc.op = "synth" /\ calc.done

Adjusted == calc.op = "catalog" /\ calc.done

\* the patterns of the list that match the record's date and hour
Matching(patterns, timestamp) ==
  { i \in 1..Len(patterns) :
      ShouldApplyPattern(patterns[i], DateString(timestamp), GetUTCHours(timestamp)) }

\* C12: the records a GenerationRun persists are anomaly-adjusted: the record
\* generateRecordsForUnit builds for a (date, hour) is what the pattern loop
\* over ANOMALY_PATTERNS makes of it, for some draw of the rule's randomness.
C12_AnomalyAdjusted ==
  Synthesized =>
    \E r \in RandomDraws :
      calc.out = ApplyAnomalies(ANOMALY_PATTERNS, calc.out, calc.date,
                                calc.hour, r).record

\* C15: first match wins. For every date, hour and ordered rule list, the loop
\* calls the apply of exactly the first rule whose selector matches and of no
\* other; with no matching rule the record passes through unchanged.
C15_FirstMatchWins ==
  Adjusted =>
    LET matching == Matching(calc.patterns, calc.record.timestamp)
    IN IF matching = {}
       THEN /\ calc.out.record = calc.record
            /\ ~calc.out.isAnomaly
            /\ calc.out.applied = <<>>
       ELSE LET first == CHOOSE i \in matching : \A j \in matching : i <= j
            IN /\ calc.out.applied = <<first>>
               /\ calc.out.isAnomaly
               /\ calc.out.record =
                    ApplyPattern(calc.patterns[first], calc.record, calc.rnd)

\* C15 witness: all three rules of a list match 2025-12-01 12:00; the first,
\* a capacity factor, took 1000 to 400 and the outage rule after it did not
\* take it to 0.
C15_Witness ==
  /\ Adjusted
  /\ calc.patterns = <<WideCapacityFactor, DropOnOutageDay, ZERO_GENERATION>>
  /\ calc.record.timestamp = [date |-> 20251201, hour |-> 12]
  /\ Cardinality(Matching(calc.patterns, calc.record.timestamp)) = 3
  /\ calc.record.energyGenerated = Whole(1000)
  /\ calc.out.record.energyGenerated = Whole(400)

\* C16: for every hour h >= 22 or h < 6 and every capacity,
\* calculateEnergyGeneration returns exactly 0, and so does the energy of the
\* record synthesized for such an hour.
C16_NightIsZero ==
  /\ (Calculated /\ (calc.hour >= 22 \/ calc.hour < 6)) => calc.out = Whole(0)
  /\ (Synthesized /\ (calc.hour >= 22 \/ calc.hour < 6))
       => calc.out.energyGenerated = Whole(0)

\* C16 witness: hour 22 with capacity 5000 and a draw above 0 gave 0.
C16_Witness ==
  /\ Calculated
  /\ calc.hour = 22 /\ calc.capacity = 5000 /\ calc.rnd > 0
  /\ calc.out = Whole(0)

\* C17: for every capacity c > 0 and every draw, the value for hour 12 and for
\* hour 13 lies in [0.675 c, 0.825 c].
C17_PeakBand ==
  (Calculated /\ calc.capacity > 0 /\ calc.hour \in {12, 13})
    => /\ Leq(Times(Rat(675, 1000), Whole(calc.capacity)), calc.out)
       /\ Leq(calc.out, Times(Rat(825, 1000), Whole(calc.capacity)))

\* C17 witness: hour 13, capacity 5000, the lowest draw: 5000 * 0.75 * 0.925 =
\* 3468.75.
C17_Witness ==
  /\ Calculated
  /\ calc.hour = 13 /\ calc.capacity = 5000 /\ calc.rnd = 0
  /\ calc.out = Rat(13875, 4)

\* C18: energyGenerated is never negative: for every hour, every capacity
\* c > 0 and every draw the curve value is >= 0, and so is the energy of every
\* synthesized record and of every record a rule has rewritten (the energy
\* before the rule being >= 0).
C18_NonNegative ==
  /\ (Calculated /\ calc.capacity > 0) => Leq(Whole(0), calc.out)
  /\ (Synthesized /\ CapacityOf(calc.unit) > 0)
       => Leq(Whole(0), calc.out.energyGenerated)
  /\ (Adjusted /\ Leq(Whole(0), calc.record.energyGenerated))
       => Leq(Whole(0), calc.out.record.energyGenerated)

\* C18 witness: the night rule of 2025-12-03 rewrote the energy of the 22:00
\* record with the lowest draw, to 50.
C18_Witness ==
  /\ Adjusted
  /\ calc.patterns = ANOMALY_PATTERNS
  /\ calc.record.timestamp = [date |-> 20251203, hour |-> 22]
  /\ calc.rnd = 0
  /\ calc.out.applied = <<5>>
  /\ calc.out.record.energyGenerated = Whole(50)

\* C19: ZERO_GENERATION. With the declared patterns, a record of 2025-12-01
\* with 10 <= hour < 14 gets energyGenerated 0 whatever its energy was; any
\* other hour of that day (14 included) leaves the record as it was.
C19_ZeroGeneration ==
  (Adjusted /\ calc.patterns = ANOMALY_PATTERNS
     /\ calc.record.timestamp.date = 20251201)
    => IF calc.record.timestamp.hour >= 10 /\ calc.record.timestamp.hour < 14
       THEN /\ calc.out.isAnomaly
            /\ calc.out.record = [calc.record EXCEPT !.energyGenerated = Whole(0)]
       ELSE /\ ~calc.out.isAnomaly
            /\ calc.out.record = calc.record

\* C19 witness: the 10:00 record of 2025-12-01 carrying the curve value of a
\* 5000 W unit (above 0) came out with energy 0.
C19_Witness ==
  /\ Adjusted
  /\ calc.patterns = ANOMALY_PATTERNS
  /\ calc.record.timestamp = [date |-> 20251201, hour |-> 10]
  /\ calc.record.energyGenerated = CalculateEnergyGeneration(10, 5000, 1)
  /\ Positive(calc.record.energyGenerated)
  /\ calc.out.record.energyGenerated = Whole(0)

\* C20: SUDDEN_DROP. With the declared patterns, a record of 2025-12-05 with
\* 9 <= hour < 15 gets the energy round(e * 0.3), e its energy before (a half
\* rounds up: floor(3e/10 + 1/2)); any other hour of that day leaves the
\* record as it was.
C20_SuddenDrop ==
  (Adjusted /\ calc.patterns = ANOMALY_PATTERNS
     /\ calc.record.timestamp.date = 20251205)
    => LET e == calc.record.energyGenerated
       IN IF calc.record.timestamp.hour >= 9 /\ calc.record.timestamp.hour < 15
          THEN /\ calc.out.isAnomaly
               /\ calc.out.record =
                    [calc.record EXCEPT !.energyGenerated =
                       Whole((6 * e.n + 10 * e.d) \div (20 * e.d))]
          ELSE /\ ~calc.out.isAnomaly
               /\ calc.out.record = calc.record

\* C20 witness: an energy of 1000 at 14:00 on 2025-12-05 came out as 300.
C20_Witness ==
  /\ Adjusted
  /\ calc.patterns = ANOMALY_PATTERNS
  /\ calc.record.timestamp = [date |-> 20251205, hour |-> 14]
  /\ calc.record.energyGenerated = Whole(1000)
  /\ calc.out.record.energyGenerated = Whole(300)

\* C21: CAPACITY_FACTOR. With the declared patterns, a record of any date from
\* 2025-12-10 to 2025-12-16 (both included) gets, at every hour, the energy
\* round(e * 0.4), e its energy before (floor(4e/10 + 1/2)); the records of
\* 2025-12-09 and 2025-12-17 stay as they were.
C21_CapacityFactor ==
  (Adjusted /\ calc.patterns = ANOMALY_PATTERNS)
    => LET e == calc.record.energyGenerated
           date == calc.record.timestamp.date
       IN /\ (date >= 20251210 /\ date <= 20251216)
               => /\ calc.out.isAnomaly
                  /\ calc.out.record =
                       [calc.record EXCEPT !.energyGenerated =
                          Whole((8 * e.n + 10 * e.d) \div (20 * e.d))]
          /\ date \in {20251209, 20251217}
               => /\ ~calc.out.isAnomaly
                  /\ calc.out.record = calc.record

\* C21 witness: on the last day of the range, 2025-12-16, at 23:00, an energy
\* of 1000 came out as 400.
C21_Witness ==
  /\ Adjusted
  /\ calc.patterns = ANOMALY_PATTERNS
  /\ calc.record.timestamp = [date |-> 20251216, hour |-> 23]
  /\ calc.record.energyGenerated = Whole(1000)
  /\ calc.out.applied = <<3>>
  /\ calc.out.record.energyGenerated = Whole(400)

\* C22: a skip is a no-op on the store. Whenever the existence check of a call
\* for (unit, day) answers with a count > 0, be it 12 or fewer, that step leaves
\* the store as it was, the call does not go on to its insert, and the pair is
\* logged as skipped.
C22_SkipIsNoOp ==
  [][\A r \in RunIds :
       ( /\ runs[r].pc = "count"
         /\ runs'[r] # runs[r]
         /\ faults' = faults
         /\ ExistingCount(runs[r]) > 0 )
       => /\ store' = store
          /\ runs'[r].pc # "insert"
          /\ Len(runs'[r].log) = Len(runs[r].log) + 1
          /\ runs'[r].log[Len(runs'[r].log)] =
               [serialNumber |-> SerialAt(runs[r], runs[r].idx),
                date |-> runs[r].date,
                outcome |-> "skipped"]]_vars

\* C22 witness: a pair was skipped while the store holds a single record of
\* it, left by a failed insertMany.
C22_Witness ==
  \E r \in RunIds :
    \E k \in 1..Len(runs[r].log) :
      /\ runs[r].log[k].outcome = "skipped"
      /\ DayCount(runs[r].log[k].serialNumber, runs[r].log[k].date) = 1

\* the invocations a step starts from the timer
TimerStarted(before, after) ==
  { r \in RunIds : before[r].pc = "idle" /\ after[r].kind = "timer" }

\* C23: at most one recurring timer job. After every step the number of
\* scheduled tasks is 0 or 1, and 1 exactly when this.job is set; a step that
\* finds a job and leaves one has scheduled no other; a step that sets
\* this.job has scheduled exactly one; and a midnight that passes starts at
\* most one timer-driven generateDailyData, none without a job.
C23_OneTimerJob ==
  [][/\ tasks' \in {0, 1}
     /\ (tasks' = 1) <=> job'
     /\ (job /\ job') => tasks' = tasks
     /\ (~job /\ job') => tasks' = tasks + 1
     /\ now' # now => Cardinality(TimerStarted(runs, runs')) <= tasks]_vars

\* C23 witness: the job is scheduled, once, and its tick has started a run.
C23_Witness ==
  /\ job
  /\ tasks = 1
  /\ now = 1
  /\ \E r \in RunIds : runs[r].kind = "timer" /\ runs[r].pc = "fetch"

----------------------------------------------------------------------------
(* The scheduler left to itself: started, two midnights ahead, nobody calls  *)
(* stop() or the admin routes.                                               *)

InitTimer ==
  /\ job = TRUE
  /\ tasks = 1
  /\ now = MaxTicks - 2
  /\ store = <<>>
  /\ registry \in RegistryResponses
  /\ runs = [r \in RunIds |-> Idle]
  /\ faults = 0
  /\ invoked = 0
  /\ calc = NoCalc

NextTimer ==
  \/ \E r \in RunIds : TimerFire(r)
  \/ \E r \in RunIds : FetchOk(r)
  \/ \E r \in RunIds : FetchFail(r)
  \/ \E r \in RunIds : CountOk(r)
  \/ \E r \in RunIds : CountFail(r)
  \/ \E r \in RunIds : InsertOk(r)
  \/ \E r \in RunIds, n \in 0..MaxPartial : InsertFail(r, n)
  \/ \E r \in RunIds : Release(r)

SpecTimer == InitTimer /\ [][NextTimer]_vars

\* C24: a failed timer-triggered run does not disable the scheduler. Once a
\* run started by the timer has thrown, the job is still set and scheduled,
\* no error has left the callback, and the next midnight (if one is ahead and
\* an invocation can start) starts generateDailyData again.
C24_FailureKeepsJob ==
  \A r \in RunIds :
    (runs[r].kind = "timer" /\ runs[r].pc = "threw")
      => /\ job
         /\ tasks = 1
         /\ runs[r].response = NoResponse
         /\ (now < MaxTicks /\ \E q \in RunIds : Free(q))
              => ENABLED (\E q \in RunIds : TimerFire(q))

\* C24 witness: the run of the first midnight threw on the registry; the run
\* of the second midnight has generated the records of its day.
C24_Witness ==
  \E q, r \in RunIds :
    /\ runs[q].kind = "timer" /\ runs[q].pc = "threw"
    /\ runs[q].fetch = "rejected"
    /\ runs[r].kind = "timer" /\ runs[r].pc = "returned"
    /\ \E k \in 1..Len(runs[r].log) :
         /\ runs[r].log[k].outcome = "generated"
         /\ runs[r].log[k].date = StartOfDay(now)
    /\ job

\* the list in the order p
Reordered(patterns, p) == [i \in 1..Len(patterns) |-> patterns[p[i]]]

\* C25: the declared patterns are pairwise disjoint. For every date and every
\* hour 0..23 at most one of the five patterns of ANOMALY_PATTERNS matches,
\* and the adjusted record is the same whatever the order of the five.
C25_CatalogDisjoint ==
  (Adjusted /\ calc.patterns = ANOMALY_PATTERNS)
    => /\ Cardinality(Matching(ANOMALY_PATTERNS, calc.record.timestamp)) <= 1
       /\ \A p \in Permutations(1..Len(ANOMALY_PATTERNS)) :
            ApplyAnomalies(Reordered(ANOMALY_PATTERNS, p), calc.record,
                           DateString(calc.record.timestamp),
                           GetUTCHours(calc.record.timestamp),
                           calc.rnd).record = calc.out.record

\* C25 witness: at 10:00 on 2025-12-08 only the spike pattern matches; with
\* a draw above one half it took 1000 to 2500.
C25_Witness ==
  /\ Adjusted
  /\ calc.patterns = ANOMALY_PATTERNS
  /\ calc.record.timestamp = [date |-> 20251208, hour |-> 10]
  /\ Matching(ANOMALY_PATTERNS, calc.record.timestamp) = {4}
  /\ 2 * calc.rnd > RandDen
  /\ calc.record.energyGenerated = Whole(1000)
  /\ calc.out.record.energyGenerated = Whole(2500)

====
